---- MODULE Spec2Model ----
(***************************************************************************)
(* Sports2DUnityBridge: a TCP fan-out bridge.  Three threads share one     *)
(* bridge object: the acceptor (Sports2DUnityBridge.start), the producer   *)
(* (Sports2D.process, which calls send_data once per frame through         *)
(* process_callback_for_unity) and the coordinator (process_with_unity),   *)
(* which waits for the producer and then calls close().  Consumers are the *)
(* environment: they connect, stall, resume and disconnect at will.        *)
(***************************************************************************)
EXTENDS Integers, Sequences, FiniteSets, TLC

\* ------------------------------------------------------------ bounds
MaxConsumers == 2      \* consumer connections the environment makes
MaxSends == 2          \* frames the producer computes
MaxCloseCalls == 2     \* calls of close() on the bridge
RecursionLimit == 5    \* interpreter stack frames left to _convert_numpy_to_list
MaxDepth == 2          \* containers nested inside the "pose" entry of a record

Handles == 1..MaxConsumers

VARIABLES
    server,     \* self.server_socket: "created" | "listening" | "closed"
    clients,    \* self.clients: sequence of handles
    lock,       \* self.lock: "free" | "producer"
    fd,         \* per handle, the bridge's socket object: "none" | "open" | "closed"
    peer,       \* per handle, the consumer's end: "live" | "hung" | "gone"
    recv,       \* per handle, the chunks the consumer has read from the stream
    accPc,      \* acceptor thread: "unstarted" | "bind" | "accept" | "add" | "stopped"
    accSock,    \* client_socket returned by accept(), 0 when none
    prodPc,     \* producer thread: "unstarted" | "idle" | "encode" | "lock" | "write"
                \*                  | "raised" | "finished" | "failed"
    sent,       \* number of send_data calls made so far
    data,       \* argument of the current send_data call
    data_to_send, \* what _convert_numpy_to_list(data) returned, line 61
    payload,    \* encoded_payload of the current call, as chunks
    snap,       \* list(self.clients), the copy the for loop iterates
    idx,        \* position of the for loop in snap
    failedNow,  \* handles whose sendall raised in the current call
    coPc,       \* coordinator: "start_server" | "launch" | "wait" | "close_lock"
                \*   | "close_server" | "join" | "done"
    closeCalls, \* number of close() calls begun
    waitEnd,    \* how the coordinator left its try block
    warned,     \* the "did not terminate gracefully" warning was logged
    log,        \* history: the payloads send_data has fanned out, in order
    joined,     \* history: per handle, Len(log) when it entered the registry
    failedEver, \* history: handles whose sendall has raised in some call
    bindFailed  \* history: start() has returned on line 31

vars == <<server, clients, lock, fd, peer, recv, accPc, accSock, prodPc, sent,
          data, data_to_send, payload, snap, idx, failedNow, coPc, closeCalls,
          waitEnd, warned, log, joined, failedEver, bindFailed>>

accVars == <<accPc, accSock>>
prodVars == <<prodPc, sent, data, data_to_send, payload, snap, idx, failedNow>>
coVars == <<coPc, closeCalls, waitEnd, warned>>
sockVars == <<fd, peer, recv>>
histVars == <<log, joined, failedEver, bindFailed>>

\* ------------------------------------------------------------ helpers
Range(s) == {s[i] : i \in 1..Len(s)}

\* list.remove(x): drops the first element equal to x
Remove(s, x) ==
    LET i == CHOOSE k \in 1..Len(s) : s[k] = x /\ \A j \in 1..(k - 1) : s[j] # x
    IN  SubSeq(s, 1, i - 1) \o SubSeq(s, i + 1, Len(s))

\* ------------------------------------------------------------ frame records
\* A producer value is a heap of nodes, node 1 the root; containers hold
\* references (indices), so a structure can contain itself.
Num(v) == [tag |-> "num", val |-> v]
Arr(vs) == [tag |-> "arr", vals |-> vs]            \* array-like: has tolist()
List(refs) == [tag |-> "list", items |-> refs]
Tuple(refs) == [tag |-> "tuple", items |-> refs]
Dict(ks, refs) == [tag |-> "dict", keys |-> ks, items |-> refs]
Obj == [tag |-> "obj"]                              \* no plain representation

Kinds == {"array", "handle", "cyclic"}

\* {"frame": n, "pose": ...} with an array inside a list, a live resource
\* handle, or a list that contains itself
FrameRecord(n, kind) ==
    CASE kind = "array"  -> <<Dict(<<"frame", "pose">>, <<2, 3>>), Num(n), List(<<4>>), Arr(<<1, 2>>)>>
      [] kind = "handle" -> <<Dict(<<"frame", "pose">>, <<2, 3>>), Num(n), Obj>>
      [] kind = "cyclic" -> <<Dict(<<"frame", "pose">>, <<2, 3>>), Num(n), List(<<3>>)>>

NoValue == [tag |-> "none"]                         \* a local not yet assigned
RecursionError == [tag |-> "RecursionError"]
TypeError == [tag |-> "TypeError"]
IsRecursionError(v) == v.tag = "RecursionError"
IsTypeError(v) == v.tag = "TypeError"
AnyTag(vs, t) == \E i \in 1..Len(vs) : vs[i].tag = t

\* the value at reference r as it stands, containers followed, nothing converted
RECURSIVE Value(_, _, _)
Value(h, r, d) ==
    IF d = 0 THEN RecursionError
    ELSE LET n == h[r] IN
         IF n.tag \in {"list", "tuple", "dict"}
         THEN LET sub == [i \in 1..Len(n.items) |-> Value(h, n.items[i], d - 1)]
              IN  IF AnyTag(sub, "RecursionError") THEN RecursionError
                  ELSE [n EXCEPT !.items = sub]
         ELSE n

\* ndarray.tolist(): a plain list of plain numbers
ToList(n) == [tag |-> "list", items |-> [i \in 1..Len(n.vals) |-> Num(n.vals[i])]]

\* _convert_numpy_to_list(item); d is the stack depth left, and running out of
\* it is the interpreter's RecursionError
RECURSIVE _convert_numpy_to_list(_, _, _)
_convert_numpy_to_list(h, r, d) ==
    IF d = 0 THEN RecursionError
    ELSE LET n == h[r] IN
         IF n.tag \in {"list", "dict"}
         THEN LET sub == [i \in 1..Len(n.items) |-> _convert_numpy_to_list(h, n.items[i], d - 1)]
              IN  IF AnyTag(sub, "RecursionError") THEN RecursionError
                  ELSE [n EXCEPT !.items = sub]
         ELSE IF n.tag = "arr" THEN ToList(n)
         ELSE Value(h, r, d)

\* json.dumps(v): the text, as its syntax tree; lists and tuples both print as
\* arrays, and a value json does not know raises TypeError
RECURSIVE Dumps(_)
Dumps(v) ==
    CASE v.tag = "num" -> [tag |-> "number", val |-> v.val]
      [] v.tag \in {"list", "tuple"} ->
            LET sub == [i \in 1..Len(v.items) |-> Dumps(v.items[i])]
            IN  IF AnyTag(sub, "TypeError") THEN TypeError
                ELSE [tag |-> "array", items |-> sub]
      [] v.tag = "dict" ->
            LET sub == [i \in 1..Len(v.items) |-> Dumps(v.items[i])]
            IN  IF AnyTag(sub, "TypeError") THEN TypeError
                ELSE [tag |-> "object", keys |-> v.keys, items |-> sub]
      [] OTHER -> TypeError

Newline == [tag |-> "newline"]

\* lines 61-69 of send_data: the payload, or the exception the encoding raised
Encode(d) ==
    LET converted == _convert_numpy_to_list(d, 1, RecursionLimit) IN
    IF IsRecursionError(converted) THEN RecursionError
    ELSE LET json_text == Dumps(converted) IN
         IF IsTypeError(json_text) THEN TypeError
         ELSE [tag |-> "payload", chunks |-> <<json_text, Newline>>]

\* ------------------------------------------------------------ initial state
\* process_with_unity after line 108: the bridge is constructed, no thread runs
Init ==
    /\ server = "created"
    /\ clients = <<>>
    /\ lock = "free"
    /\ fd = [h \in Handles |-> "none"]
    /\ peer = [h \in Handles |-> "none"]
    /\ recv = [h \in Handles |-> <<>>]
    /\ accPc = "unstarted"
    /\ accSock = 0
    /\ prodPc = "unstarted"
    /\ sent = 0
    /\ data = <<>>
    /\ data_to_send = NoValue
    /\ payload = <<>>
    /\ snap = <<>>
    /\ idx = 0
    /\ failedNow = {}
    /\ coPc = "start_server"
    /\ closeCalls = 0
    /\ waitEnd = "none"
    /\ warned = FALSE
    /\ log = <<>>
    /\ joined = [h \in Handles |-> 0]
    /\ failedEver = {}
    /\ bindFailed = FALSE

\* ------------------------------------------------------------ consumers
\* a connected consumer has stopped draining its socket and the send buffer
\* is full, which shows only to a sendall on it
PeerStall(h) ==
    /\ fd[h] = "open" /\ peer[h] = "live"
    /\ prodPc = "write" /\ idx <= Len(snap) /\ snap[idx] = h
    /\ peer' = [peer EXCEPT ![h] = "hung"]
    /\ UNCHANGED <<server, clients, lock, fd, recv, accVars, prodVars, coVars, histVars>>

PeerResume(h) ==
    /\ fd[h] = "open" /\ peer[h] = "hung"
    /\ peer' = [peer EXCEPT ![h] = "live"]
    /\ UNCHANGED <<server, clients, lock, fd, recv, accVars, prodVars, coVars, histVars>>

\* a consumer closes or resets its connection without notice
PeerDisconnect(h) ==
    /\ fd[h] = "open" /\ peer[h] \in {"live", "hung"}
    /\ peer' = [peer EXCEPT ![h] = "gone"]
    /\ UNCHANGED <<server, clients, lock, fd, recv, accVars, prodVars, coVars, histVars>>

\* ------------------------------------------------------------ acceptor: start()
\* lines 25-31: bind and listen; an address in use, or a server socket that
\* close() has already closed, raises socket.error and start() returns
A_Bind ==
    /\ accPc = "bind" /\ server = "created"
    /\ server' = "listening"
    /\ accPc' = "accept"
    /\ UNCHANGED <<clients, lock, sockVars, accSock, prodVars, coVars, histVars>>

\* lines 29-30 without the return of line 31: start() goes on to its loop
A_BindErrorNoReturn ==
    /\ accPc = "bind"
    /\ accPc' = "accept"
    /\ bindFailed' = TRUE
    /\ UNCHANGED <<server, clients, lock, sockVars, accSock, prodVars, coVars, log, joined,
                   failedEver>>

A_BindError ==
    /\ accPc = "bind"
    /\ accPc' = "stopped"
    /\ bindFailed' = TRUE
    /\ UNCHANGED <<server, clients, lock, sockVars, accSock, prodVars, coVars, log, joined,
                   failedEver>>

\* line 35: accept() returns the next connecting consumer.  An accept() that
\* close() finds blocked still holds the listening socket and can return one
\* more consumer (Linux), or is woken with an error (A_AcceptClosed).
A_Accept ==
    /\ accPc = "accept" /\ server \in {"listening", "closed"}
    /\ \E h \in Handles :
        /\ fd[h] = "none" /\ \A g \in Handles : g < h => fd[g] # "none"
        /\ fd' = [fd EXCEPT ![h] = "open"]
        /\ peer' = [peer EXCEPT ![h] = "live"]
        /\ accSock' = h
    /\ accPc' = "add"
    /\ UNCHANGED <<server, clients, lock, recv, prodVars, coVars, histVars>>

\* line 38 without the with of line 37: the append does not wait for the lock
A_AddUnlocked ==
    /\ accPc = "add"
    /\ clients' = Append(clients, accSock)
    /\ joined' = [joined EXCEPT ![accSock] = Len(log)]
    /\ accSock' = 0
    /\ accPc' = IF server = "closed" THEN "stopped" ELSE "accept"
    /\ UNCHANGED <<server, lock, sockVars, prodVars, coVars, log, failedEver, bindFailed>>

\* lines 37-38: with self.lock: self.clients.append(client_socket), and the
\* loop calls accept() again: on a listening socket that is closed by then it
\* raises at once and the loop breaks (lines 39-41)
A_Add ==
    /\ accPc = "add" /\ lock = "free"
    /\ clients' = Append(clients, accSock)
    /\ joined' = [joined EXCEPT ![accSock] = Len(log)]
    /\ accSock' = 0
    /\ accPc' = IF server = "closed" THEN "stopped" ELSE "accept"
    /\ UNCHANGED <<server, lock, sockVars, prodVars, coVars, log, failedEver, bindFailed>>

\* lines 39-41: the blocked accept() raises socket.error because close() has
\* closed the listening socket: break
A_AcceptClosed ==
    /\ accPc = "accept" /\ server = "closed"
    /\ accPc' = "stopped"
    /\ UNCHANGED <<server, clients, lock, sockVars, accSock, prodVars, coVars, histVars>>

\* lines 39-41 again: a transient error of one accept (ECONNABORTED, EMFILE)
\* is a socket.error too: break
A_AcceptTransient ==
    /\ accPc = "accept" /\ server = "listening"
    /\ accPc' = "stopped"
    /\ UNCHANGED <<server, clients, lock, sockVars, accSock, prodVars, coVars, histVars>>

AcceptorNext ==
    A_Bind \/ A_BindError \/ A_Accept \/ A_Add \/ A_AcceptClosed \/ A_AcceptTransient

\* ------------------------------------------------------------ producer
Alive(pc) == pc \in {"idle", "encode", "lock", "write", "raised"}

\* the locals of a send_data call that has ended
NoCall ==
    /\ data' = <<>>
    /\ data_to_send' = NoValue
    /\ payload' = <<>>
    /\ snap' = <<>>
    /\ idx' = 0
    /\ failedNow' = {}

\* send_data without lines 58-59: the record is encoded whatever the registry holds
P_CallAlwaysEncodes(kind) ==
    /\ prodPc = "idle" /\ sent < MaxSends
    /\ sent' = sent + 1
    /\ data' = FrameRecord(sent + 1, kind)
    /\ prodPc' = "encode"
    /\ UNCHANGED <<server, clients, lock, sockVars, accVars, data_to_send, payload, snap,
                   idx, failedNow, coVars, histVars>>

\* send_data(data), lines 58-59, called through process_callback_for_unity:
\* the unlocked look at self.clients
P_Call(kind) ==
    /\ prodPc = "idle" /\ sent < MaxSends
    /\ sent' = sent + 1
    /\ IF clients = <<>>
       THEN UNCHANGED <<prodPc, data>>
       ELSE /\ data' = FrameRecord(sent + 1, kind)
            /\ prodPc' = "encode"
    /\ UNCHANGED <<server, clients, lock, sockVars, accVars, data_to_send, payload, snap,
                   idx, failedNow, coVars, histVars>>

\* lines 61-69: a RecursionError of line 61, which is outside the try, leaves
\* send_data; a TypeError of json.dumps is logged and the call returns
P_Encode ==
    /\ prodPc = "encode"
    /\ LET e == Encode(data) IN
        IF IsRecursionError(e)
        THEN /\ prodPc' = "raised"
             /\ UNCHANGED <<data, data_to_send, payload>>
        ELSE IF IsTypeError(e)
        THEN /\ prodPc' = "idle"
             /\ data' = <<>>
             /\ UNCHANGED <<data_to_send, payload>>
        ELSE /\ data_to_send' = _convert_numpy_to_list(data, 1, RecursionLimit)
             /\ payload' = e.chunks
             /\ prodPc' = "lock"
             /\ UNCHANGED data
    /\ UNCHANGED <<server, clients, lock, sockVars, accVars, sent, snap, idx, failedNow,
                   coVars, histVars>>

\* lines 71-72: with self.lock: for client in list(self.clients)
P_Lock ==
    /\ prodPc = "lock" /\ lock = "free"
    /\ lock' = "producer"
    /\ snap' = clients
    /\ idx' = 1
    /\ prodPc' = "write"
    /\ log' = Append(log, payload)
    /\ UNCHANGED <<server, clients, sockVars, accVars, sent, data, data_to_send, payload, failedNow,
                   coVars, joined, failedEver, bindFailed>>

\* line 74: client.sendall(encoded_payload) completes; a consumer that does
\* not drain its socket keeps sendall blocked (the sockets have no timeout).
\* sendall of bytes raises nothing but OSError, which is socket.error, so
\* lines 82-83 have no action.
P_WriteOk ==
    /\ prodPc = "write" /\ idx <= Len(snap)
    /\ LET client == snap[idx] IN
        /\ fd[client] = "open" /\ peer[client] = "live"
        /\ recv' = [recv EXCEPT ![client] = @ \o payload]
    /\ idx' = idx + 1
    /\ UNCHANGED <<server, clients, lock, fd, peer, accVars, prodPc, sent, data, data_to_send, payload,
                   snap, failedNow, coVars, histVars>>

\* line 74 on a consumer that has just gone: the first sendall after the
\* disconnection still returns, the bytes are lost
P_WriteLost ==
    /\ prodPc = "write" /\ idx <= Len(snap)
    /\ LET client == snap[idx] IN
        /\ fd[client] = "open" /\ peer[client] = "gone"
    /\ idx' = idx + 1
    /\ UNCHANGED <<server, clients, lock, sockVars, accVars, prodPc, sent, data, data_to_send, payload,
                   snap, failedNow, coVars, histVars>>

\* lines 75-81 without line 77: the client is closed and stays in the list
P_WritePruneKeepsClient ==
    /\ prodPc = "write" /\ idx <= Len(snap)
    /\ LET client == snap[idx] IN
        /\ fd[client] = "open" /\ peer[client] = "gone"
        /\ fd' = [fd EXCEPT ![client] = "closed"]
        /\ failedNow' = failedNow \cup {client}
        /\ failedEver' = failedEver \cup {client}
    /\ idx' = idx + 1
    /\ UNCHANGED <<server, clients, lock, peer, recv, accVars, prodPc, sent, data,
                   data_to_send, payload, snap, coVars, log, joined, bindFailed>>

\* lines 75-81: sendall raises socket.error, getpeername() answers: the
\* client is removed and closed, the loop goes on
P_WritePrune ==
    /\ prodPc = "write" /\ idx <= Len(snap)
    /\ LET client == snap[idx] IN
        /\ fd[client] = "open" /\ peer[client] = "gone"
        /\ clients' = Remove(clients, client)
        /\ fd' = [fd EXCEPT ![client] = "closed"]
        /\ failedNow' = failedNow \cup {client}
        /\ failedEver' = failedEver \cup {client}
    /\ idx' = idx + 1
    /\ UNCHANGED <<server, lock, peer, recv, accVars, prodPc, sent, data, data_to_send, payload, snap,
                   coVars, log, joined, bindFailed>>

\* lines 75-76: sendall raises socket.error and, the socket being no longer
\* connected, so does client.getpeername() inside the handler: the exception
\* leaves the for loop, the with block (which releases the lock) and send_data
P_WriteEscape ==
    /\ prodPc = "write" /\ idx <= Len(snap)
    /\ LET client == snap[idx] IN
        /\ fd[client] = "closed" \/ peer[client] = "gone"
        /\ failedNow' = failedNow \cup {client}
        /\ failedEver' = failedEver \cup {client}
    /\ lock' = "free"
    /\ prodPc' = "raised"
    /\ UNCHANGED <<server, clients, sockVars, accVars, sent, data, data_to_send, payload, snap, idx,
                   coVars, log, joined, bindFailed>>

\* the for loop is over: the with block releases the lock, send_data returns
P_Return ==
    /\ prodPc = "write" /\ idx > Len(snap)
    /\ lock' = "free"
    /\ prodPc' = "idle"
    /\ NoCall
    /\ UNCHANGED <<server, clients, sockVars, accVars, sent, coVars, histVars>>

\* line 135: an exception out of send_data goes up through the callback into
\* Sports2D.process, which either dies of it or catches it and goes on
P_ThreadDies ==
    /\ prodPc = "raised"
    /\ prodPc' = "failed"
    /\ NoCall
    /\ UNCHANGED <<server, clients, lock, sockVars, accVars, sent, coVars, histVars>>

P_Swallow ==
    /\ prodPc = "raised"
    /\ prodPc' = "idle"
    /\ NoCall
    /\ UNCHANGED <<server, clients, lock, sockVars, accVars, sent, coVars, histVars>>

\* Sports2D.process returns, or (P_Fail) raises on its own
P_Finish ==
    /\ prodPc = "idle"
    /\ prodPc' = "finished"
    /\ UNCHANGED <<server, clients, lock, sockVars, accVars, sent, data, data_to_send, payload, snap,
                   idx, failedNow, coVars, histVars>>

P_Fail ==
    /\ prodPc = "idle"
    /\ prodPc' = "failed"
    /\ UNCHANGED <<server, clients, lock, sockVars, accVars, sent, data, data_to_send, payload, snap,
                   idx, failedNow, coVars, histVars>>

ProducerNext ==
    \/ \E kind \in Kinds : P_Call(kind)
    \/ P_Encode \/ P_Lock \/ P_WriteOk \/ P_WriteLost \/ P_WritePrune \/ P_WriteEscape
    \/ P_Return \/ P_ThreadDies \/ P_Swallow \/ P_Finish \/ P_Fail

\* ------------------------------------------------------------ close()
\* lines 88-97: with self.lock, every client is shut down and closed and the
\* list is cleared.  shutdown() of a socket whose peer is gone can raise
\* ENOTCONN: the handler passes, and client.close() on line 92 has been
\* skipped.  Nothing another thread does shows inside the locked block, so it
\* is one step.
C_CloseClients ==
    /\ coPc = "close_lock" /\ lock = "free"
    /\ \E raised \in SUBSET {h \in Range(clients) : peer[h] = "gone"} :
          fd' = [h \in Handles |->
                    IF h \in Range(clients) \ raised THEN "closed" ELSE fd[h]]
    /\ clients' = <<>>
    /\ coPc' = "close_server"
    /\ UNCHANGED <<server, lock, peer, recv, accVars, prodVars, closeCalls, waitEnd,
                   warned, histVars>>

\* lines 99-104: self.server_socket.close(); close() returns, to line 161 when
\* it was called from the finally block
C_CloseServer ==
    /\ coPc = "close_server"
    /\ server' = "closed"
    /\ coPc' = IF closeCalls = 1 THEN "join" ELSE "done"
    /\ UNCHANGED <<clients, lock, sockVars, accVars, prodVars, closeCalls, waitEnd,
                   warned, histVars>>

\* close() is public: the owner of the bridge calls it once more
C_CloseAgain ==
    /\ coPc = "done" /\ closeCalls < MaxCloseCalls
    /\ closeCalls' = closeCalls + 1
    /\ coPc' = "close_lock"
    /\ UNCHANGED <<server, clients, lock, sockVars, accVars, prodVars, waitEnd, warned,
                   histVars>>

\* ------------------------------------------------------------ coordinator
\* lines 110-112: the acceptor thread is started
C_StartServer ==
    /\ coPc = "start_server"
    /\ accPc' = "bind"
    /\ coPc' = "launch"
    /\ UNCHANGED <<server, clients, lock, sockVars, accSock, prodVars, closeCalls, waitEnd,
                   warned, histVars>>

\* lines 143-145: the producer thread is started
C_Launch ==
    /\ coPc = "launch"
    /\ prodPc' = "idle"
    /\ coPc' = "wait"
    /\ UNCHANGED <<server, clients, lock, sockVars, accVars, sent, data, data_to_send, payload, snap,
                   idx, failedNow, closeCalls, waitEnd, warned, histVars>>

\* lines 158-160: the finally block calls bridge.close()
FinallyWithoutClose ==
    /\ coPc' = "join"
    /\ UNCHANGED closeCalls

Finally ==
    /\ coPc' = "close_lock"
    /\ closeCalls' = closeCalls + 1

\* lines 149-150: the wait ends when the producer thread is no longer alive
C_WaitEnd ==
    /\ coPc = "wait" /\ ~Alive(prodPc)
    /\ waitEnd' = IF prodPc = "finished" THEN "completed" ELSE "failed"
    /\ Finally
    /\ UNCHANGED <<server, clients, lock, sockVars, accVars, prodVars, warned, histVars>>

\* lines 152-153: KeyboardInterrupt inside the try block
C_Interrupt ==
    /\ coPc \in {"launch", "wait"}
    /\ waitEnd' = "interrupt"
    /\ Finally
    /\ UNCHANGED <<server, clients, lock, sockVars, accVars, prodVars, warned, histVars>>

\* lines 154-157: Thread.start() raises (no thread can be started)
C_LaunchError ==
    /\ coPc = "launch"
    /\ waitEnd' = "error"
    /\ Finally
    /\ UNCHANGED <<server, clients, lock, sockVars, accVars, prodVars, warned, histVars>>

\* lines 161-166: a producer still alive is joined for at most 5 s, and warned
\* about when it is alive after that
C_Join ==
    /\ coPc = "join"
    /\ warned' = Alive(prodPc)
    /\ coPc' = "done"
    /\ UNCHANGED <<server, clients, lock, sockVars, accVars, prodVars, closeCalls, waitEnd,
                   histVars>>

CloseSteps == C_CloseClients \/ C_CloseServer

CoordNext ==
    \/ C_StartServer \/ C_Launch \/ C_WaitEnd \/ C_Interrupt \/ C_LaunchError
    \/ CloseSteps \/ C_Join

EnvNext == \E h \in Handles : PeerStall(h) \/ PeerResume(h) \/ PeerDisconnect(h)

Next == AcceptorNext \/ ProducerNext \/ CoordNext \/ EnvNext

\* process_with_unity as written: close() is called once, by the finally block
Spec == Init /\ [][Next]_vars

\* the same, with the owner of the bridge calling close() again afterwards
NextReclose == Next \/ C_CloseAgain

SpecReclose == Init /\ [][NextReclose]_vars

\* Scheduling: a thread that can take its next step takes it, and a sendall
\* whose consumer drains its socket again and again completes.  Nothing makes
\* a consumer connect, drain or disconnect, the operator interrupt, the
\* producer end, or a blocked accept() notice that its socket was closed.
FairSpec ==
    /\ Spec
    /\ WF_vars(C_StartServer \/ C_Launch \/ C_WaitEnd \/ CloseSteps \/ C_Join)
    /\ SF_vars(P_Encode \/ P_Lock \/ P_WriteOk \/ P_WriteLost \/ P_WritePrune \/ P_WriteEscape
               \/ P_Return \/ P_ThreadDies \/ P_Swallow)
    /\ WF_vars(A_Bind \/ A_BindError \/ A_Add)

\* ------------------------------------------------------------ normalization alone
\* bridge._convert_numpy_to_list(item) called on a constructed bridge, for
\* every record {"frame": n, "pose": c1(c2(... leaf))} whose containers c1,
\* c2, ... are lists, tuples or dicts and whose leaf is a number, an
\* array-like buffer or an object
Containers == {"list", "tuple", "dict"}
Leaves == {"num", "arr", "obj"}
Nestings == UNION {[1..k -> Containers] : k \in 1..MaxDepth}

Container(kind, refs) ==
    CASE kind = "list"  -> List(refs)
      [] kind = "tuple" -> Tuple(refs)
      [] kind = "dict"  -> Dict(<<"xy">>, refs)

Leaf(kind, n) ==
    CASE kind = "num" -> Num(n)
      [] kind = "arr" -> Arr(<<n, n + 1>>)
      [] kind = "obj" -> Obj

\* node 1 the record, node 2 the frame number, nodes 3 .. the containers,
\* each holding the next node, the last node the leaf
NestedRecord(n, nesting, leaf) ==
    <<Dict(<<"frame", "pose">>, <<2, 3>>), Num(n)>>
        \o [i \in 1..Len(nesting) |-> Container(nesting[i], <<i + 3>>)]
        \o <<Leaf(leaf, n)>>

Records ==
    {NestedRecord(n, nesting, leaf) : n \in 1..MaxSends, nesting \in Nestings, leaf \in Leaves}

InitNormalize ==
    /\ server = "created"
    /\ clients = <<>>
    /\ lock = "free"
    /\ fd = [h \in Handles |-> "none"]
    /\ peer = [h \in Handles |-> "none"]
    /\ recv = [h \in Handles |-> <<>>]
    /\ accPc = "unstarted"
    /\ accSock = 0
    /\ prodPc = "unstarted"
    /\ sent = 0
    /\ data \in Records
    /\ data_to_send = NoValue
    /\ payload = <<>>
    /\ snap = <<>>
    /\ idx = 0
    /\ failedNow = {}
    /\ coPc = "start_server"
    /\ closeCalls = 0
    /\ waitEnd = "none"
    /\ warned = FALSE
    /\ log = <<>>
    /\ joined = [h \in Handles |-> 0]
    /\ failedEver = {}
    /\ bindFailed = FALSE

\* lines 46-55, called on the record
N_Convert ==
    /\ data_to_send = NoValue
    /\ data_to_send' = _convert_numpy_to_list(data, 1, RecursionLimit)
    /\ UNCHANGED <<server, clients, lock, sockVars, accVars, prodPc, sent, data, payload,
                   snap, idx, failedNow, coVars, histVars>>

NextNormalize == N_Convert

SpecNormalize == InitNormalize /\ [][NextNormalize]_vars

\* ------------------------------------------------------------ properties
RECURSIVE Concat(_)
Concat(ss) == IF ss = <<>> THEN <<>> ELSE Head(ss) \o Concat(Tail(ss))

\* what consumer h is due: every payload fanned out since it entered the registry
Due(h) == Concat(SubSeq(log, joined[h] + 1, Len(log)))

\* a stream of whole records: a JSON text, one newline, a JSON text, ...
Framed(stream) ==
    \A i \in 1..Len(stream) : (stream[i] = Newline) <=> (i % 2 = 0)

InSendData == prodPc \in {"encode", "lock", "write"}

\* C1: between send_data calls, every connected consumer in the registry has
\* received exactly the records fanned out since it joined, in the order
\* sent, once each, each followed by exactly one newline.
C1_EveryRecordInOrder ==
    ~InSendData =>
        \A h \in Range(clients) :
            peer[h] # "gone" => (recv[h] = Due(h) /\ Framed(recv[h]) /\ Len(recv[h]) % 2 = 0)

\* the step with which a send_data call that reached its for loop ends, the
\* consumers whose write failed in the call, and whether the stream of
\* consumer h ends with the payload of the call
EndsFanOut == prodPc = "write" /\ prodPc' # "write"
FailedInCall == failedNow \cup failedNow'
DeliveredNow(h) ==
    /\ Len(recv'[h]) >= Len(payload)
    /\ SubSeq(recv'[h], Len(recv'[h]) - Len(payload) + 1, Len(recv'[h])) = payload

\* C2: when a send_data call over two or more consumers ends and the write to
\* one of them failed, every other consumer of the call that is still
\* connected has been written the record, and the registry has lost the
\* failed consumers and nothing else.
C2_WriteFailureIsolated ==
    [][(EndsFanOut /\ Len(snap) >= 2 /\ FailedInCall # {}) =>
          /\ \A h \in Range(snap) \ FailedInCall : peer'[h] # "gone" => DeliveredNow(h)
          /\ Range(clients') = Range(snap) \ FailedInCall]_vars

\* C3: a send_data call in which a consumer's write failed does not end with
\* an exception.
C3_NoExceptionEscapesWrite ==
    failedNow # {} => prodPc # "raised"

\* C4: once a send_data call has ended, no consumer whose write failed is in
\* the registry, and no write is attempted on a consumer whose write failed
\* in an earlier call.
C4_FailedConsumerPruned ==
    /\ ~InSendData => failedEver \cap Range(clients) = {}
    /\ (prodPc = "write" /\ idx <= Len(snap)) => snap[idx] \notin (failedEver \ failedNow)

\* send_data is inside sendall on a consumer that does not drain its socket
BlockedOnWrite ==
    /\ prodPc = "write" /\ idx <= Len(snap)
    /\ fd[snap[idx]] = "open" /\ peer[snap[idx]] = "hung"

\* C5: send_data does not hold the lock while it is blocked in a write, and
\* the acceptor can then add the consumer it has just accepted.
C5_NoLockDuringWrite ==
    BlockedOnWrite => (lock # "producer" /\ (accPc = "add" => ENABLED A_Add))

\* the close() of the finally block has returned
CloseReturned == closeCalls >= 1 /\ coPc \in {"join", "done"}

\* C6: after close() has returned the registry is empty, the listening socket
\* is closed, and no consumer handle is open.
C6_ClosedIsTerminal ==
    CloseReturned =>
        /\ clients = <<>>
        /\ server = "closed"
        /\ \A h \in Handles : fd[h] # "open"

\* C7: every close() call, the first as the later ones, whatever state the
\* acceptor is in, returns with the registry empty and the listening socket
\* closed.
C7_CloseIdempotent ==
    [][(coPc = "close_server" /\ coPc' # "close_server") =>
          (clients' = <<>> /\ server' = "closed")]_vars

Encodable(d) == Encode(d).tag = "payload"

\* C8: a send_data call, made with consumers in the registry, whose record
\* cannot be encoded drops the record: it returns without an exception and
\* leaves every stream and the registry as they were.
C8_UnencodableRecordDropped ==
    [][(prodPc = "encode" /\ prodPc' # "encode" /\ ~Encodable(data)) =>
          (prodPc' = "idle" /\ UNCHANGED <<recv, clients>>)]_vars

\* C9: however the coordinator leaves its wait (the producer completed, the
\* producer failed, an interrupt, a failed launch) it has called close() on
\* the way out, and it reaches its end only with close() called and the
\* listening socket closed.
C9_CloseOnEveryExit ==
    /\ waitEnd # "none" => closeCalls >= 1
    /\ coPc \in {"close_lock", "close_server"} => closeCalls >= 1
    /\ coPc \in {"join", "done"} => (waitEnd # "none" /\ closeCalls >= 1 /\ server = "closed")

\* the coordinator was interrupted while the producer ran, has closed the
\* bridge and finished, the producer still alive
C9_InterruptedThenClosed ==
    /\ coPc = "done" /\ waitEnd = "interrupt" /\ closeCalls = 1
    /\ Alive(prodPc) /\ warned /\ server = "closed"

\* C10: after an interrupt the coordinator reaches its end, whatever the
\* producer does.
C10_CleanupCompletes == (waitEnd = "interrupt") ~> (coPc = "done")

\* C11: when close() is invoked while send_data is blocked in a write, the
\* blocked write comes to an end (close() closes the consumer's socket
\* without waiting for the write).
C11_CloseEndsInFlightWrite ==
    (coPc = "close_lock" /\ BlockedOnWrite) ~> ~BlockedOnWrite

\* C12: a send_data call that has begun its writes leaves them again, even
\* when close() is never called.
C12_SendDataReturns ==
    (prodPc = "write") ~> (prodPc # "write" \/ closeCalls > 0)

\* C13: as long as the listening socket is open the acceptor is in its
\* loop, accepting or adding the consumer it accepted: no error of a single
\* accept ends the loop.
C13_AcceptingWhileListening ==
    server = "listening" => accPc \in {"accept", "add"}

\* a send_data call begins
CallBegins == prodPc = "idle" /\ sent' = sent + 1

\* C14: a send_data call made while the registry is empty returns at once
\* and without an exception: the record is neither normalized nor
\* serialized, nothing is written to any socket, nothing is fanned out, and
\* the registry, the lock and every handle are as before.
C14_EmptyRegistryNoOp ==
    [][(CallBegins /\ clients = <<>>) =>
          /\ prodPc' = "idle"
          /\ UNCHANGED <<data, payload, snap, clients, lock, fd, recv, log>>]_vars

\* frames were sent before any consumer had connected, and the producer goes on
C14_SentToNobody ==
    /\ sent = MaxSends /\ prodPc = "idle" /\ server = "listening"
    /\ \A h \in Handles : fd[h] = "none"
    /\ log = <<>> /\ data = <<>> /\ payload = <<>>

\* C15: once bind or listen has failed in start(), no consumer is ever
\* accepted or added, no send_data call gets past its look at the empty
\* registry (nothing is encoded, fanned out or locked), and the coordinator
\* is never held up: each step of its close() and of its way to the end can
\* be taken, and at its end the listening socket is closed.
C15_BindFailureTerminal ==
    bindFailed =>
        /\ accPc = "stopped" /\ accSock = 0
        /\ clients = <<>> /\ \A h \in Handles : fd[h] = "none"
        /\ ~InSendData /\ prodPc # "raised" /\ log = <<>> /\ lock = "free"
        /\ coPc = "close_lock" => ENABLED C_CloseClients
        /\ coPc = "close_server" => ENABLED C_CloseServer
        /\ coPc = "join" => ENABLED C_Join
        /\ coPc = "done" => (closeCalls >= 1 /\ server = "closed")

\* the address was in use: frames were produced for nobody, the producer
\* completed, and the coordinator has closed the bridge and finished
C15_BindFailedAndFinished ==
    /\ bindFailed /\ sent = MaxSends /\ prodPc = "finished"
    /\ coPc = "done" /\ waitEnd = "completed" /\ server = "closed"

\* the record at reference r with every array-like buffer, inside whatever
\* container, replaced by the plain list of its values, and nothing else changed
RECURSIVE Plain(_, _)
Plain(h, r) ==
    LET n == h[r] IN
    IF n.tag \in Containers
    THEN [n EXCEPT !.items = [i \in 1..Len(n.items) |-> Plain(h, n.items[i])]]
    ELSE IF n.tag = "arr" THEN ToList(n)
    ELSE n

\* C16: what _convert_numpy_to_list returns for a record is the record with
\* the same containers, every array-like buffer at any depth and inside any
\* list, tuple or dict replaced by the plain list of its values, and every
\* other value as it was.
C16_ArraysConvertedEverywhere ==
    data_to_send # NoValue => data_to_send = Plain(data, 1)

\* the handles a step takes out of the registry
Removed == Range(clients) \ Range(clients')

\* C17: no handle is in the registry twice, so a removal takes it out once
\* and for all, and every handle a step removes, by the prune of send_data
\* or by close(), is closed when the step is over, whatever has become of
\* its peer.
C17_RemovedHandleClosed ==
    [][/\ Cardinality(Range(clients')) = Len(clients')
       /\ \A h \in Removed : fd'[h] = "closed"]_vars

\* the three mutations of self.clients, each by the thread that is at it
\* and with the lock in that thread's hands: the producer's while it holds
\* the lock, the two others' when the lock is theirs to take
AddByAcceptor ==
    /\ accPc = "add" /\ accPc' # "add" /\ lock = "free"
    /\ clients' = Append(clients, accSock)

PruneByProducer ==
    /\ prodPc = "write" /\ lock = "producer" /\ idx <= Len(snap)
    /\ snap[idx] \in failedNow'
    /\ clients' = Remove(clients, snap[idx])

ClearByClose ==
    /\ coPc = "close_lock" /\ coPc' = "close_server" /\ lock = "free"
    /\ clients' = <<>>

\* C18: every change of the registry is the acceptor's append of the handle
\* it accepted, the producer's removal of the one handle whose write has
\* just failed, or the clear of close(), made with the lock; the registry
\* never holds a handle twice, and no handle leaves it in any other way.
C18_RegistryLinearizable ==
    [][clients' # clients =>
          /\ AddByAcceptor \/ PruneByProducer \/ ClearByClose
          /\ \A i, j \in 1..Len(clients') : clients'[i] = clients'[j] => i = j]_vars

\* the producer, holding the lock, has pruned a consumer while the acceptor
\* waits for the lock with the consumer it has accepted
C18_AddWaitsForPrune ==
    /\ lock = "producer" /\ accPc = "add" /\ accSock \in Handles
    /\ failedNow # {} /\ failedNow \cap Range(clients) = {}
    /\ \A h \in failedNow : fd[h] = "closed"

\* C19: once close() has closed the listening socket the acceptor comes to
\* the end of its loop and stays there.
C19_AcceptorStops ==
    (server = "closed") ~> [](accPc = "stopped")

\* C20: whenever the lock is free no handle in the registry is one the
\* bridge has closed, and send_data never comes to write on a handle the
\* bridge has closed, before close() or after it.
C20_NoClosedHandleInRegistry ==
    /\ lock = "free" => \A h \in Range(clients) : fd[h] # "closed"
    /\ (prodPc = "write" /\ idx <= Len(snap)) => fd[snap[idx]] # "closed"

\* close() has closed a consumer and returned, the coordinator has finished,
\* and the producer, still running, is writing to a consumer added since
C20_ProducerWritesAfterClose ==
    /\ coPc = "done" /\ server = "closed"
    /\ prodPc = "write" /\ idx <= Len(snap) /\ fd[snap[idx]] = "open"
    /\ \E h \in Handles : fd[h] = "closed"

====
